---------------------------- MODULE Spec2Model ----------------------------
(***************************************************************************)
(* Keyword-triggered, interruptible speech playback of                     *)
(* rstt/keyword-node/src/index.js: the handlers of the transcript stream   *)
(* (partial, final), the playback functions (speakText, interruptSpeech,   *)
(* makeInterruptibleRequest), the reset utility (RSTInterruptUtility) and  *)
(* the two manual keys, as one state machine of the single event loop.     *)
(***************************************************************************)
EXTENDS Naturals, Sequences, FiniteSets

VARIABLES
    isSpeaking,                   \* module flag, index.js:19
    requests,                     \* speak requests sent and not yet settled, by id
    reqCount,                     \* number of speak requests started so far
    interrupts,                   \* reset attempts of interrupts not yet finished, by id
    intCount,                     \* number of interrupts that issued resets so far
    hasFinalTranscript,           \* listenForKeyword local, index.js:490
    keywordDetected,              \* listenForKeyword local, index.js:493
    consecutiveKeywordDetection,  \* listenForKeyword local, index.js:496
    last,                         \* history: the handler that ran last and what it did
    utterance,                    \* history: where the transcript events stand
    eventSources,                 \* readyState of every EventSource made, in order
    elapsed,                      \* Date.now() - startTime of the latest connection
    timeoutExceeded,              \* listenForKeyword local, index.js:487
    timeoutTimer,                 \* the timer of index.js:511: armed, fired or cleared
    reconnectAttempt,             \* listenForKeyword parameter, index.js:480
    reconnectTimer,               \* the timer of index.js:776, when one is pending
    isFirstConnection,            \* module flag, index.js:16
    exited,                       \* process.exit(1) was called
    maxReconnectAttempts,         \* MAX_RECONNECT_ATTEMPTS as configured, index.js:708
    lastSession,                  \* history: the session handler that ran last
    demo                          \* the Puppeteer demo: runDemo, main and the managers they use

playbackVars ==
    <<isSpeaking, requests, reqCount, interrupts, intCount, hasFinalTranscript,
      keywordDetected, consecutiveKeywordDetection, last, utterance>>

sessionVars ==
    <<eventSources, elapsed, timeoutExceeded, timeoutTimer, reconnectAttempt,
      reconnectTimer, isFirstConnection, exited, maxReconnectAttempts, lastSession>>

vars == <<playbackVars, sessionVars, demo>>

----------------------------------------------------------------------------
(* Bounds of the model *)

MaxRequests == 2

MaxInterrupts == 1

\* EventSource objects made in one run
MaxConnections == 11

\* EventSource objects made in a run that also follows the transcript events
MaxHeardConnections == 2

----------------------------------------------------------------------------
(* Text: a transcript is a sequence of one-character strings *)

KEYWORD == <<"r", "o", "b", "o", "t">>

\* the text of index.js:22-23, by its opening sentence
LONG_TEXT == "The chat bot joined the meeting and greeted everyone warmly."

DefaultLanguageCode == "en-US"

UpperCase == <<"A", "B", "C", "D", "E", "F", "G", "H", "I", "J", "K", "L", "M",
               "N", "O", "P", "Q", "R", "S", "T", "U", "V", "W", "X", "Y", "Z">>

LowerCase == <<"a", "b", "c", "d", "e", "f", "g", "h", "i", "j", "k", "l", "m",
               "n", "o", "p", "q", "r", "s", "t", "u", "v", "w", "x", "y", "z">>

Digits == {"0", "1", "2", "3", "4", "5", "6", "7", "8", "9"}

WhiteSpace == {" ", "\t", "\n"}

\* the 'i' flag of the RegExp: characters compare by their case-folded form
ToLower(c) ==
    IF \E i \in 1..26 : UpperCase[i] = c
    THEN LowerCase[CHOOSE i \in 1..26 : UpperCase[i] = c]
    ELSE c

\* \w of the RegExp
IsWordChar(c) ==
    \/ \E i \in 1..26 : c = UpperCase[i] \/ c = LowerCase[i]
    \/ c \in Digits
    \/ c = "_"

\* \b of the RegExp at the position between t[p] and t[p+1]
WordBoundary(t, p) ==
    LET before == p >= 1 /\ p <= Len(t) /\ IsWordChar(t[p])
        after  == p + 1 >= 1 /\ p + 1 <= Len(t) /\ IsWordChar(t[p + 1])
    IN  before # after

\* the test without the "i" flag
KeywordRegExpTestCaseSensitive(t) ==
    \E s \in 1..Len(t) :
        /\ s + Len(KEYWORD) - 1 <= Len(t)
        /\ \A j \in 1..Len(KEYWORD) : t[s + j - 1] = KEYWORD[j]
        /\ WordBoundary(t, s - 1)
        /\ WordBoundary(t, s + Len(KEYWORD) - 1)

\* the test without the two \b
KeywordRegExpTestNoBoundary(t) ==
    \E s \in 1..Len(t) :
        /\ s + Len(KEYWORD) - 1 <= Len(t)
        /\ \A j \in 1..Len(KEYWORD) : ToLower(t[s + j - 1]) = ToLower(KEYWORD[j])

\* new RegExp(`\\b${KEYWORD}\\b`, "i").test(transcript)
KeywordRegExpTest(t) ==
    \E s \in 1..Len(t) :
        /\ s + Len(KEYWORD) - 1 <= Len(t)
        /\ \A j \in 1..Len(KEYWORD) : ToLower(t[s + j - 1]) = ToLower(KEYWORD[j])
        /\ WordBoundary(t, s - 1)
        /\ WordBoundary(t, s + Len(KEYWORD) - 1)

RECURSIVE TrimStart(_)
TrimStart(t) ==
    IF t # <<>> /\ Head(t) \in WhiteSpace THEN TrimStart(Tail(t)) ELSE t

RECURSIVE TrimEnd(_)
TrimEnd(t) ==
    IF t # <<>> /\ t[Len(t)] \in WhiteSpace
    THEN TrimEnd(SubSeq(t, 1, Len(t) - 1))
    ELSE t

\* String.prototype.trim
Trim(t) == TrimEnd(TrimStart(t))

----------------------------------------------------------------------------
(* Inputs *)

\* "robot", "Robot now", "please robot respond", "robots", "robot_1",
\* "hi-ROBOT", " robot ", "hello", "" and " "
Transcripts ==
    { <<"r", "o", "b", "o", "t">>,
      <<"R", "o", "b", "o", "t", " ", "n", "o", "w">>,
      <<"p", "l", "e", "a", "s", "e", " ", "r", "o", "b", "o", "t", " ",
        "r", "e", "s", "p", "o", "n", "d">>,
      <<"r", "o", "b", "o", "t", "s">>,
      <<"r", "o", "b", "o", "t", "_", "1">>,
      <<"h", "i", "-", "R", "O", "B", "O", "T">>,
      <<" ", "r", "o", "b", "o", "t", " ">>,
      <<"h", "e", "l", "l", "o">>,
      <<>>,
      <<" ">> }

\* event.data of a partial or final event: a JSON object with a string transcript,
\* text JSON.parse rejects, or JSON without a transcript (data.transcript.trim throws)
Payloads ==
    {[json |-> "ok", transcript |-> t] : t \in Transcripts}
        \cup {[json |-> "unparsable", transcript |-> <<>>],
              [json |-> "noTranscript", transcript |-> <<>>]}

\* what ends a speak request: the response's "end", or an "error" of the request
Settlements ==
    {[type |-> "end", code |-> "none", forciblyClosed |-> FALSE],
     [type |-> "error", code |-> "ECONNRESET", forciblyClosed |-> FALSE],
     [type |-> "error", code |-> "ERR_SOCKET", forciblyClosed |-> TRUE],
     [type |-> "error", code |-> "ETIMEDOUT", forciblyClosed |-> FALSE]}

\* the same, with more of the errors a request can end on: a refused connection,
\* and the "Socket forcibly closed" message under another code or with the reset
RequestSettlements ==
    Settlements \cup
        {[type |-> "error", code |-> "ECONNREFUSED", forciblyClosed |-> FALSE],
         [type |-> "error", code |-> "EPIPE", forciblyClosed |-> TRUE],
         [type |-> "error", code |-> "ECONNRESET", forciblyClosed |-> TRUE]}

----------------------------------------------------------------------------
(* Playback: the state speakText and interruptSpeech work on, as a record *)

PB ==
    [isSpeaking |-> isSpeaking, requests |-> requests, reqCount |-> reqCount,
     interrupts |-> interrupts, intCount |-> intCount]

SetPB(pb) ==
    /\ isSpeaking' = pb.isSpeaking
    /\ requests' = pb.requests
    /\ reqCount' = pb.reqCount
    /\ interrupts' = pb.interrupts
    /\ intCount' = pb.intCount

\* one more entry in a table kept by id
Put(f, id, v) == [k \in DOMAIN f \cup {id} |-> IF k = id THEN v ELSE f[k]]

Drop(f, id) == [k \in DOMAIN f \ {id} |-> f[k]]

\* RSTInterruptUtility.interruptSpeech: the first sendRSTPacket at once, the
\* backup one from a 200 ms timer
RSTInterruptSpeech(pb) ==
    LET id == pb.intCount + 1
    IN  [pb EXCEPT !.intCount = id,
                   !.interrupts = Put(pb.interrupts, id,
                        [after |-> pb.reqCount, first |-> "pending", backup |-> "timer",
                         sent |-> 1])]

\* history: the interrupt is asked of the speech in progress, the latest request
MarkInterruptRequested(pb) ==
    [pb EXCEPT !.requests =
        [k \in DOMAIN pb.requests |->
            IF k = pb.reqCount
            THEN [pb.requests[k] EXCEPT !.interruptRequested = TRUE]
            ELSE pb.requests[k]]]

\* interruptSpeech that leaves the flag to the callbacks of its resets
interruptSpeechDeferred(pb) ==
    IF pb.isSpeaking
    THEN [pb |-> RSTInterruptSpeech(MarkInterruptRequested(pb)), ret |-> TRUE]
    ELSE [pb |-> pb, ret |-> FALSE]

\* interruptSpeech that destroys the socket of the request in flight instead of
\* opening one of its own
interruptSpeechOnRequestSocket(pb) ==
    LET wasSpeaking == pb.isSpeaking
        idle == [pb EXCEPT !.isSpeaking = FALSE]
    IN  IF wasSpeaking
        THEN [pb |-> [idle EXCEPT !.requests = Drop(idle.requests, idle.reqCount)],
              ret |-> TRUE]
        ELSE [pb |-> idle, ret |-> FALSE]

\* function interruptSpeech(): the new playback state and the value returned
interruptSpeech(pb) ==
    LET wasSpeaking == pb.isSpeaking
        idle == [pb EXCEPT !.isSpeaking = FALSE]
    IN  IF wasSpeaking
        THEN [pb |-> RSTInterruptSpeech(MarkInterruptRequested(idle)), ret |-> TRUE]
        ELSE [pb |-> idle, ret |-> FALSE]

\* speakText that sends its request without marking the state Speaking
speakTextFlagUnset(pb, text, languageCode) ==
    LET pb1 == IF pb.isSpeaking THEN interruptSpeech(pb).pb ELSE pb
        id == pb1.reqCount + 1
    IN  [pb1 EXCEPT !.reqCount = id,
                    !.requests = Put(pb1.requests, id,
                        [text |-> text, language_code |-> languageCode,
                         enableRSTInterruption |-> TRUE,
                         interruptRequested |-> FALSE])]

\* speakText up to its await: the request of makeInterruptibleRequest is sent
speakText(pb, text, languageCode) ==
    LET pb1 == IF pb.isSpeaking THEN interruptSpeech(pb).pb ELSE pb
        id == pb1.reqCount + 1
    IN  [pb1 EXCEPT !.isSpeaking = TRUE,
                    !.reqCount = id,
                    !.requests = Put(pb1.requests, id,
                        [text |-> text, language_code |-> languageCode,
                         enableRSTInterruption |-> TRUE,
                         interruptRequested |-> FALSE])]

\* makeInterruptibleRequest: how the promise settles on the response's "end" or
\* on the request's "error"
makeInterruptibleRequest(enableRSTInterruption, s) ==
    IF s.type = "end"
    THEN [settled |-> "resolve", interrupted |-> FALSE, onInterrupt |-> FALSE]
    ELSE IF enableRSTInterruption /\ (s.code = "ECONNRESET" \/ s.forciblyClosed)
         THEN [settled |-> "resolve", interrupted |-> TRUE, onInterrupt |-> TRUE]
         ELSE [settled |-> "reject", interrupted |-> FALSE, onInterrupt |-> FALSE]

\* speakText after its await: what the call reports
speakTextReport(response) ==
    IF response.settled = "reject" THEN "Failed"
    ELSE IF response.interrupted THEN "Interrupted"
    ELSE "Completed"

\* speakText whose catch block rethrows without clearing the flag
speakTextSettledCatchKeepsFlag(pb, id, response) ==
    IF response.settled = "reject"
    THEN [pb EXCEPT !.requests = Drop(pb.requests, id)]
    ELSE [pb EXCEPT !.isSpeaking = FALSE, !.requests = Drop(pb.requests, id)]

\* speakText after its await: the state once request id has settled (onInterrupt,
\* then the line after the await or the catch block)
speakTextSettled(pb, id, response) ==
    LET pb1 == IF response.onInterrupt THEN [pb EXCEPT !.isSpeaking = FALSE] ELSE pb
    IN  [pb1 EXCEPT !.isSpeaking = FALSE, !.requests = Drop(pb1.requests, id)]

----------------------------------------------------------------------------
(* Keyword trigger: the partial and final listeners of listenForKeyword *)

TG ==
    [hasFinalTranscript |-> hasFinalTranscript, keywordDetected |-> keywordDetected,
     consecutiveKeywordDetection |-> consecutiveKeywordDetection]

SetTG(tg) ==
    /\ hasFinalTranscript' = tg.hasFinalTranscript
    /\ keywordDetected' = tg.keywordDetected
    /\ consecutiveKeywordDetection' = tg.consecutiveKeywordDetection

\* JSON.parse(event.data) and data.transcript.trim() both succeed
Parses(p) == p.json = "ok"

\* the "partial" listener without its reset of keywordDetected
partialHandlerKeepsKeyword(tg, p) ==
    IF ~Parses(p) THEN tg
    ELSE IF tg.hasFinalTranscript
         THEN [hasFinalTranscript |-> FALSE,
               keywordDetected |-> tg.keywordDetected,
               consecutiveKeywordDetection |-> FALSE]
         ELSE tg

\* the "partial" listener; a payload that does not parse throws into the catch
\* block before any flag is touched
partialHandler(tg, p) ==
    IF ~Parses(p) THEN tg
    ELSE IF tg.hasFinalTranscript
         THEN [hasFinalTranscript |-> FALSE,
               keywordDetected |-> IF tg.keywordDetected THEN FALSE ELSE tg.keywordDetected,
               consecutiveKeywordDetection |-> FALSE]
         ELSE tg

\* the test of the "final" listener on the trimmed transcript
keywordHeard(transcript) == transcript # <<>> /\ KeywordRegExpTest(transcript)

\* a listener that speaks whatever the speaking state
keywordActionAlwaysSpeak(speaking) == "Speak"

\* the branch of the "final" listener taken for a transcript with the keyword
keywordAction(speaking) == IF speaking THEN "Interrupt" ELSE "Speak"

\* what the "final" listener reads off its payload, for every payload
Heard == [p \in Payloads |-> Parses(p) /\ keywordHeard(Trim(p.transcript))]

\* the calls the "final" listener makes, in order; a payload that does not parse
\* throws into the catch block before any call
finalHandler(pb, p) ==
    IF Parses(p) /\ Heard[p] THEN <<keywordAction(pb.isSpeaking)>> ELSE <<>>

\* a "final" listener that sets its flags whether or not the payload parses
finalFlagsUnguarded(tg, p) ==
    [hasFinalTranscript |-> TRUE,
     keywordDetected |-> Heard[p],
     consecutiveKeywordDetection |-> FALSE]

\* the flags after the "final" listener
finalFlags(tg, p) ==
    IF ~Parses(p) THEN tg
    ELSE [hasFinalTranscript |-> TRUE,
          keywordDetected |-> Heard[p],
          consecutiveKeywordDetection |-> FALSE]

\* the playback state after the calls of a handler, made in order
RECURSIVE perform(_, _)
perform(pb, actions) ==
    IF actions = <<>> THEN pb
    ELSE perform(IF Head(actions) = "Interrupt"
                 THEN interruptSpeech(pb).pb
                 ELSE speakText(pb, LONG_TEXT, DefaultLanguageCode),
                 Tail(actions))

----------------------------------------------------------------------------
(* History kept for stating the properties *)

\* a maximal run of word characters of t equals word, letter case aside
ContainsWholeWord(t, word) ==
    \E i \in 1..Len(t) : \E j \in i..Len(t) :
        /\ \A k \in i..j : IsWordChar(t[k])
        /\ i = 1 \/ ~IsWordChar(t[i - 1])
        /\ j = Len(t) \/ ~IsWordChar(t[j + 1])
        /\ j - i + 1 = Len(word)
        /\ \A k \in 1..Len(word) : ToLower(t[i + k - 1]) = ToLower(word[k])

\* the payloads that carry a transcript with the keyword as a whole word
WithWord == {p \in Payloads : p.json = "ok" /\ ContainsWholeWord(p.transcript, KEYWORD)}

\* "K": a final with the keyword, "F": another final, "P": a partial
EventClass(kind, p) ==
    IF kind = "partial" THEN "P"
    ELSE IF p \in WithWord THEN "K"
    ELSE "F"

\* "Armed": the latest transcript event is a final with the keyword;
\* "Disarmed": it is a partial that came right after such a final; "Idle" otherwise
Follows(u, c) ==
    IF c = "K" THEN "Armed"
    ELSE IF c = "P" /\ u = "Armed" THEN "Disarmed"
    ELSE "Idle"

Last(op) ==
    [op |-> op, parsed |-> FALSE, word |-> FALSE, wasSpeaking |-> isSpeaking,
     actions |-> <<>>, started |-> 0, resets |-> 0, req |-> 0, report |-> "none",
     cause |-> "none", interruptRequested |-> FALSE, after |-> 0, before |-> "Idle",
     response |-> [settled |-> "none", interrupted |-> FALSE, onInterrupt |-> FALSE],
     enableRSTInterruption |-> FALSE, forciblyClosed |-> FALSE]

Ran(op, pb, actions) ==
    [Last(op) EXCEPT !.actions = actions,
                     !.started = pb.reqCount - reqCount,
                     !.resets = pb.intCount - intCount]

InBounds(pb) == pb.reqCount <= MaxRequests /\ pb.intCount <= MaxInterrupts

----------------------------------------------------------------------------
(* Transcript session: the constants and the reconnect helper of listenForKeyword *)

SSE_TIMEOUT_MS == 210000

RESTART_DELAY_MS == 1000

DefaultMaxReconnectAttempts == 10

BASE_RECONNECT_DELAY_MS == 1000

MAX_RECONNECT_DELAY_MS == 30000

\* "1 minute of successful connection"
AttemptResetAfterMs == 60000

\* Math.random() * 1000 lies in [0, JitterBoundMs)
JitterBoundMs == 1000

\* the values of Math.random() * 1000 tried: the least, a middle one, the last whole one
Jitters == {0, JitterBoundMs \div 2, JitterBoundMs - 1}

\* the least limit MAX_RECONNECT_ATTEMPTS can be set to
TightMaxReconnectAttempts == 1

\* the values of MAX_RECONNECT_ATTEMPTS tried: 0 (no limit), the least limit and
\* the default
MaxAttemptsChoices == {0, TightMaxReconnectAttempts, DefaultMaxReconnectAttempts}

\* the values of Date.now() - startTime told apart, in increasing order
ClockPoints ==
    <<0, AttemptResetAfterMs, AttemptResetAfterMs + 1, SSE_TIMEOUT_MS - 1, SSE_TIMEOUT_MS>>

\* a delay in ms as the fraction num / den: the powers of 1.5 are kept exact
Ms(n) == [num |-> n, den |-> 1]

RECURSIVE Pow(_, _)
Pow(b, k) == IF k = 0 THEN 1 ELSE b * Pow(b, k - 1)

LessEq(x, y) == x.num * y.den <= y.num * x.den

Less(x, y) == x.num * y.den < y.num * x.den

Same(x, y) == x.num * y.den = y.num * x.den

Plus(x, y) == [num |-> x.num * y.den + y.num * x.den, den |-> x.den * y.den]

MinOf(x, y) == IF LessEq(x, y) THEN x ELSE y

\* BASE_RECONNECT_DELAY_MS * Math.pow(1.5, k)
BaseTimesPow(k) == [num |-> BASE_RECONNECT_DELAY_MS * Pow(3, k), den |-> Pow(2, k)]

\* backoffDelay with the exponent one too high
backoffDelayExponentOff(n) == MinOf(BaseTimesPow(n), Ms(MAX_RECONNECT_DELAY_MS))

\* backoffDelay without its cap
backoffDelayUncapped(n) == BaseTimesPow(n - 1)

\* the backoffDelay of reconnect for the incremented attempt n > 1
backoffDelay(n) == MinOf(BaseTimesPow(n - 1), Ms(MAX_RECONNECT_DELAY_MS))

\* reconnectPlan whose non-error branch leaves the attempt counter alone
reconnectPlanKeepsAttempt(attempt, isError, connectedMs, jitter, maxAttempts) ==
    IF isError
    THEN LET forgiven == IF connectedMs > AttemptResetAfterMs THEN 0 ELSE attempt
             n == forgiven + 1
         IN  [attempt |-> n,
              delay |-> IF n > 1 THEN Plus(backoffDelay(n), Ms(jitter))
                        ELSE Ms(RESTART_DELAY_MS),
              fatal |-> maxAttempts > 0 /\ n > maxAttempts]
    ELSE [attempt |-> attempt, delay |-> Ms(RESTART_DELAY_MS), fatal |-> FALSE]

\* reconnectPlan that backs off from the first attempt on
reconnectPlanBackoffFromFirst(attempt, isError, connectedMs, jitter, maxAttempts) ==
    IF isError
    THEN LET forgiven == IF connectedMs > AttemptResetAfterMs THEN 0 ELSE attempt
             n == forgiven + 1
         IN  [attempt |-> n,
              delay |-> IF n > 0 THEN Plus(backoffDelay(n), Ms(jitter))
                        ELSE Ms(RESTART_DELAY_MS),
              fatal |-> maxAttempts > 0 /\ n > maxAttempts]
    ELSE [attempt |-> 0, delay |-> Ms(RESTART_DELAY_MS), fatal |-> FALSE]

\* reconnectPlan that never forgets earlier failures
reconnectPlanNeverForgives(attempt, isError, connectedMs, jitter, maxAttempts) ==
    IF isError
    THEN LET n == attempt + 1
         IN  [attempt |-> n,
              delay |-> IF n > 1 THEN Plus(backoffDelay(n), Ms(jitter))
                        ELSE Ms(RESTART_DELAY_MS),
              fatal |-> maxAttempts > 0 /\ n > maxAttempts]
    ELSE [attempt |-> 0, delay |-> Ms(RESTART_DELAY_MS), fatal |-> FALSE]

\* reconnectPlan that forgets earlier failures from 60000 ms on
reconnectPlanForgivesAtSixty(attempt, isError, connectedMs, jitter, maxAttempts) ==
    IF isError
    THEN LET forgiven == IF connectedMs >= AttemptResetAfterMs THEN 0 ELSE attempt
             n == forgiven + 1
         IN  [attempt |-> n,
              delay |-> IF n > 1 THEN Plus(backoffDelay(n), Ms(jitter))
                        ELSE Ms(RESTART_DELAY_MS),
              fatal |-> maxAttempts > 0 /\ n > maxAttempts]
    ELSE [attempt |-> 0, delay |-> Ms(RESTART_DELAY_MS), fatal |-> FALSE]

\* reconnectPlan that gives up on reaching the limit
reconnectPlanFatalAtLimit(attempt, isError, connectedMs, jitter, maxAttempts) ==
    IF isError
    THEN LET forgiven == IF connectedMs > AttemptResetAfterMs THEN 0 ELSE attempt
             n == forgiven + 1
         IN  [attempt |-> n,
              delay |-> IF n > 1 THEN Plus(backoffDelay(n), Ms(jitter))
                        ELSE Ms(RESTART_DELAY_MS),
              fatal |-> maxAttempts > 0 /\ n >= maxAttempts]
    ELSE [attempt |-> 0, delay |-> Ms(RESTART_DELAY_MS), fatal |-> FALSE]

\* reconnectPlan that gives up one failure after passing the limit
reconnectPlanFatalPastLimit(attempt, isError, connectedMs, jitter, maxAttempts) ==
    IF isError
    THEN LET forgiven == IF connectedMs > AttemptResetAfterMs THEN 0 ELSE attempt
             n == forgiven + 1
         IN  [attempt |-> n,
              delay |-> IF n > 1 THEN Plus(backoffDelay(n), Ms(jitter))
                        ELSE Ms(RESTART_DELAY_MS),
              fatal |-> maxAttempts > 0 /\ n > maxAttempts + 1]
    ELSE [attempt |-> 0, delay |-> Ms(RESTART_DELAY_MS), fatal |-> FALSE]

\* reconnectPlan that takes a limit of 0 as a limit
reconnectPlanZeroIsLimit(attempt, isError, connectedMs, jitter, maxAttempts) ==
    IF isError
    THEN LET forgiven == IF connectedMs > AttemptResetAfterMs THEN 0 ELSE attempt
             n == forgiven + 1
         IN  [attempt |-> n,
              delay |-> IF n > 1 THEN Plus(backoffDelay(n), Ms(jitter))
                        ELSE Ms(RESTART_DELAY_MS),
              fatal |-> n > maxAttempts]
    ELSE [attempt |-> 0, delay |-> Ms(RESTART_DELAY_MS), fatal |-> FALSE]

\* reconnect(isError), its arithmetic: the attempt counter and the delay it ends
\* with, and whether it took process.exit(1) before scheduling
reconnectPlan(attempt, isError, connectedMs, jitter, maxAttempts) ==
    IF isError
    THEN LET forgiven == IF connectedMs > AttemptResetAfterMs THEN 0 ELSE attempt
             n == forgiven + 1
         IN  [attempt |-> n,
              delay |-> IF n > 1 THEN Plus(backoffDelay(n), Ms(jitter))
                        ELSE Ms(RESTART_DELAY_MS),
              fatal |-> maxAttempts > 0 /\ n > maxAttempts]
    ELSE [attempt |-> 0, delay |-> Ms(RESTART_DELAY_MS), fatal |-> FALSE]

\* the session state reconnect and listenForKeyword work on, as a record
SS ==
    [eventSources |-> eventSources, elapsed |-> elapsed,
     timeoutExceeded |-> timeoutExceeded, timeoutTimer |-> timeoutTimer,
     reconnectAttempt |-> reconnectAttempt, reconnectTimer |-> reconnectTimer,
     exited |-> exited]

SetSS(ss) ==
    /\ eventSources' = ss.eventSources
    /\ elapsed' = ss.elapsed
    /\ timeoutExceeded' = ss.timeoutExceeded
    /\ timeoutTimer' = ss.timeoutTimer
    /\ reconnectAttempt' = ss.reconnectAttempt
    /\ reconnectTimer' = ss.reconnectTimer
    /\ exited' = ss.exited

\* the latest EventSource: the one the running listenForKeyword call made
Current(ss) == Len(ss.eventSources)

\* reconnect that returns early when the library has closed the connection
reconnectSkipsClosed(ss, isError, jitter, maxAttempts) ==
    LET plan == reconnectPlan(ss.reconnectAttempt, isError, ss.elapsed, jitter, maxAttempts)
        closed == [ss EXCEPT !.timeoutTimer = "cleared",
                             !.eventSources[Current(ss)] = "CLOSED",
                             !.reconnectAttempt = plan.attempt]
    IN  IF ss.eventSources[Current(ss)] = "CLOSED"
        THEN [ss EXCEPT !.timeoutTimer = "cleared"]
        ELSE IF plan.fatal
             THEN [closed EXCEPT !.exited = TRUE]
             ELSE [closed EXCEPT !.reconnectTimer =
                        <<[delay |-> plan.delay, attempt |-> plan.attempt]>>]

\* reconnect that schedules the next connection without closing this one
reconnectLeavesOpen(ss, isError, jitter, maxAttempts) ==
    LET plan == reconnectPlan(ss.reconnectAttempt, isError, ss.elapsed, jitter, maxAttempts)
        closed == [ss EXCEPT !.timeoutTimer = "cleared",
                             !.reconnectAttempt = plan.attempt]
    IN  IF plan.fatal
        THEN [closed EXCEPT !.exited = TRUE]
        ELSE [closed EXCEPT !.reconnectTimer =
                    <<[delay |-> plan.delay, attempt |-> plan.attempt]>>]

\* reconnect whose setTimeout sits in the non-error branch
reconnectErrorUnscheduled(ss, isError, jitter, maxAttempts) ==
    LET plan == reconnectPlan(ss.reconnectAttempt, isError, ss.elapsed, jitter, maxAttempts)
        closed == [ss EXCEPT !.timeoutTimer = "cleared",
                             !.eventSources[Current(ss)] = "CLOSED",
                             !.reconnectAttempt = plan.attempt]
    IN  IF plan.fatal
        THEN [closed EXCEPT !.exited = TRUE]
        ELSE IF isError
             THEN closed
             ELSE [closed EXCEPT !.reconnectTimer =
                        <<[delay |-> plan.delay, attempt |-> plan.attempt]>>]

\* reconnect(isError): clear the timeout timer, close the connection unless it is
\* closed, then exit or schedule listenForKeyword after the delay
reconnect(ss, isError, jitter, maxAttempts) ==
    LET plan == reconnectPlan(ss.reconnectAttempt, isError, ss.elapsed, jitter, maxAttempts)
        closed == [ss EXCEPT !.timeoutTimer = "cleared",
                             !.eventSources[Current(ss)] = "CLOSED",
                             !.reconnectAttempt = plan.attempt]
    IN  IF plan.fatal
        THEN [closed EXCEPT !.exited = TRUE]
        ELSE [closed EXCEPT !.reconnectTimer =
                    <<[delay |-> plan.delay, attempt |-> plan.attempt]>>]

\* listenForKeyword(workstationId, attempt) up to its return: a new EventSource,
\* a new startTime, the timeout timer set, the counter taken from the argument
listenForKeyword(ss, attempt) ==
    [ss EXCEPT !.eventSources = Append(ss.eventSources, "CONNECTING"),
               !.elapsed = 0,
               !.timeoutExceeded = FALSE,
               !.timeoutTimer = "armed",
               !.reconnectAttempt = attempt,
               !.reconnectTimer = <<>>]

\* the session before listenForKeyword is first called
NoSession ==
    [eventSources |-> <<>>, elapsed |-> 0, timeoutExceeded |-> FALSE,
     timeoutTimer |-> "cleared", reconnectAttempt |-> 0, reconnectTimer |-> <<>>,
     exited |-> FALSE]

LastSession(op) ==
    [op |-> op, conn |-> Len(eventSources), isError |-> FALSE, elapsed |-> elapsed,
     attemptBefore |-> reconnectAttempt, jitter |-> 0, reconnected |-> FALSE,
     readyBefore |-> IF eventSources = <<>> THEN "none"
                     ELSE eventSources[Len(eventSources)],
     timedOut |-> timeoutExceeded,
     errorRun |-> lastSession.errorRun, runYoung |-> lastSession.runYoung]

\* history: the errors in a row since the start or the last non-error reconnect,
\* counted while each of them came on a connection younger than 60 s
AfterError(ls, connectedMs) ==
    IF ls.runYoung /\ connectedMs < AttemptResetAfterMs
    THEN [ls EXCEPT !.errorRun = @ + 1]
    ELSE [ls EXCEPT !.errorRun = 0, !.runYoung = FALSE]

\* history: a non-error reconnect starts a new run of errors
AfterRestart(ls, restarted) ==
    IF restarted THEN [ls EXCEPT !.errorRun = 0, !.runYoung = TRUE] ELSE ls

----------------------------------------------------------------------------
(* The Puppeteer demo (puppeteer/README.md): runDemo, main, WorkstationManager *)

\* calls of main in one run of runDemo
MaxRuns == 3

\* before runDemo is called: runDemo's workstationManager and currentPage are
\* null, no manager object and no workstation exists. pc is where the one async
\* chain stands; cur, existing and page are main's workstationManager,
\* existingWorkstation and page; cleaning and ret are the manager cleanup runs on
\* and the caller it returns to.
DemoStart ==
    [pc |-> "loop", run |-> 0, failures |-> 0, workstationManager |-> 0,
     currentPage |-> FALSE, cur |-> 0, existing |-> FALSE, page |-> FALSE,
     managers |-> <<>>, workstations |-> <<>>, cleaning |-> 0, ret |-> "none",
     thrown |-> FALSE]

\* new WorkstationManager(apiKey)
WorkstationManager == [workstation |-> 0, browser |-> "null"]

\* the catch block of main, where every failure inside its try block lands
Throws(d) == [d EXCEPT !.pc = "mainCatch", !.failures = @ + 1]

\* the first statements of WorkstationManager.cleanup, entered for manager m
cleanup(d, m, caller) == [d EXCEPT !.pc = "cleanupClose", !.cleaning = m, !.ret = caller]

\* runDemo settles: it rejects with the error its loop rethrew, or it resolves
Settled(d) == [d EXCEPT !.pc = IF d.thrown THEN "rejected" ELSE "done"]

\* runDemo's loop calls main(workstationManager, currentPage): main up to its
\* first await. Without an API key main throws before its try block.
CallMain(apiKey) ==
    /\ demo.pc = "loop"
    /\ demo.run < MaxRuns
    /\ apiKey \/ demo.workstationManager = 0
    /\ LET existing == demo.workstationManager # 0
           d == [demo EXCEPT !.run = @ + 1, !.existing = existing,
                             !.page = demo.currentPage]
       IN  demo' =
             IF ~apiKey
             THEN [d EXCEPT !.pc = "runCatch", !.failures = @ + 1]
             ELSE IF existing
             THEN [d EXCEPT !.cur = demo.workstationManager,
                            !.pc = IF demo.currentPage THEN "search" ELSE "create"]
             ELSE [d EXCEPT !.managers = Append(@, WorkstationManager),
                            !.cur = Len(demo.managers) + 1,
                            !.pc = IF demo.currentPage THEN "search" ELSE "create"]
    /\ UNCHANGED <<playbackVars, sessionVars>>

\* workstationManager.createWorkstation(): the post answers or fails
createWorkstation(ok) ==
    /\ demo.pc = "create"
    /\ demo' =
         IF ok
         THEN [demo EXCEPT !.workstations = Append(@, [deleteCalls |-> 0, deleted |-> FALSE]),
                           !.managers[demo.cur].workstation = Len(demo.workstations) + 1,
                           !.pc = "connect"]
         ELSE Throws(demo)
    /\ UNCHANGED <<playbackVars, sessionVars>>

\* workstationManager.connectBrowser(), which rethrows what it catches
connectBrowser(ok) ==
    /\ demo.pc = "connect"
    /\ demo' = IF ok
               THEN [demo EXCEPT !.managers[demo.cur].browser = "connected", !.pc = "newPage"]
               ELSE Throws(demo)
    /\ UNCHANGED <<playbackVars, sessionVars>>

\* page = await workstationManager.browser.newPage()
newPage(ok) ==
    /\ demo.pc = "newPage"
    /\ demo' = IF ok THEN [demo EXCEPT !.page = TRUE, !.pc = "search"] ELSE Throws(demo)
    /\ UNCHANGED <<playbackVars, sessionVars>>

\* demo.performGoogleSearch()
performGoogleSearch(ok) ==
    /\ demo.pc = "search"
    /\ demo' = IF ok THEN [demo EXCEPT !.pc = "click"] ELSE Throws(demo)
    /\ UNCHANGED <<playbackVars, sessionVars>>

\* demo.clickSearchResult(), which rethrows what it catches
clickSearchResult(ok) ==
    /\ demo.pc = "click"
    /\ demo' = IF ok THEN [demo EXCEPT !.pc = "navigate"] ELSE Throws(demo)
    /\ UNCHANGED <<playbackVars, sessionVars>>

\* demo.navigateToLaunchPage(), which swallows a failed goto but not a failed
\* wait before it; then main returns {page, workstationManager} and runDemo
\* stores both
navigateToLaunchPage(ok) ==
    /\ demo.pc = "navigate"
    /\ demo' = IF ok
               THEN [demo EXCEPT !.currentPage = demo.page,
                                 !.workstationManager = demo.cur,
                                 !.pc = "prompt"]
               ELSE Throws(demo)
    /\ UNCHANGED <<playbackVars, sessionVars>>

mainCatchCleansAlways ==
    /\ demo.pc = "mainCatch"
    /\ demo' = cleanup(demo, demo.cur, "main")
    /\ UNCHANGED <<playbackVars, sessionVars>>

\* the catch block of main: clean up unless the manager was handed in, and rethrow
mainCatch ==
    /\ demo.pc = "mainCatch"
    /\ demo' = IF ~demo.existing
               THEN cleanup(demo, demo.cur, "main")
               ELSE [demo EXCEPT !.pc = "runCatch"]
    /\ UNCHANGED <<playbackVars, sessionVars>>

\* cleanup: if (this.browser) await this.browser.close(), a failure is logged
cleanupClose(ok) ==
    /\ demo.pc = "cleanupClose"
    /\ demo.managers[demo.cleaning].browser # "null" \/ ok
    /\ demo' = IF demo.managers[demo.cleaning].browser # "null" /\ ok
               THEN [demo EXCEPT !.managers[demo.cleaning].browser = "closed",
                                 !.pc = "cleanupDelete"]
               ELSE [demo EXCEPT !.pc = "cleanupDelete"]
    /\ UNCHANGED <<playbackVars, sessionVars>>

\* cleanup: if (this.workstation) await axios.delete(...), a failure is logged;
\* then cleanup returns to main's catch, which rethrows, or to runDemo's finally
cleanupDelete(ok) ==
    /\ demo.pc = "cleanupDelete"
    /\ LET w == demo.managers[demo.cleaning].workstation
           d == IF w = 0
                THEN demo
                ELSE [demo EXCEPT !.workstations[w].deleteCalls = @ + 1,
                                  !.workstations[w].deleted = @ \/ ok]
       IN  /\ w # 0 \/ ok
           /\ demo' = IF demo.ret = "main" THEN [d EXCEPT !.pc = "runCatch"]
                                           ELSE Settled(d)
    /\ UNCHANGED <<playbackVars, sessionVars>>

\* the catch block of runDemo's loop: a failure with no session yet is fatal
runCatch ==
    /\ demo.pc = "runCatch"
    /\ demo' = IF demo.workstationManager = 0
               THEN [demo EXCEPT !.thrown = TRUE, !.pc = "finally"]
               ELSE [demo EXCEPT !.pc = "prompt"]
    /\ UNCHANGED <<playbackVars, sessionVars>>

\* the user's answer to "run another demo? (y/n)"
Answer(yes) ==
    /\ demo.pc = "prompt"
    /\ yes => demo.run < MaxRuns
    /\ demo' = [demo EXCEPT !.pc = IF yes THEN "loop" ELSE "finally"]
    /\ UNCHANGED <<playbackVars, sessionVars>>

\* runDemo's finally block
runDemoFinally ==
    /\ demo.pc = "finally"
    /\ demo' = IF demo.workstationManager # 0
               THEN cleanup(demo, demo.workstationManager, "finally")
               ELSE Settled(demo)
    /\ UNCHANGED <<playbackVars, sessionVars>>

----------------------------------------------------------------------------
(* The handlers of the event loop *)

\* the process is alive: process.exit has not been called
Running == ~exited

\* the latest EventSource is open: the only state in which it delivers events
Listening ==
    /\ Running
    /\ eventSources # <<>>
    /\ eventSources[Len(eventSources)] = "OPEN"

\* module load up to the return of listenForKeyword(WORKSTATION_ID)
Start(maxAttempts) ==
    /\ isSpeaking = FALSE
    /\ requests = <<>>
    /\ reqCount = 0
    /\ interrupts = <<>>
    /\ intCount = 0
    /\ hasFinalTranscript = FALSE
    /\ keywordDetected = FALSE
    /\ consecutiveKeywordDetection = FALSE
    /\ last = Last("start")
    /\ utterance = "Idle"
    /\ LET ss == listenForKeyword(NoSession, 0)
       IN  /\ eventSources = ss.eventSources
           /\ elapsed = ss.elapsed
           /\ timeoutExceeded = ss.timeoutExceeded
           /\ timeoutTimer = ss.timeoutTimer
           /\ reconnectAttempt = ss.reconnectAttempt
           /\ reconnectTimer = ss.reconnectTimer
           /\ exited = ss.exited
    /\ isFirstConnection = TRUE
    /\ maxReconnectAttempts = maxAttempts
    /\ lastSession = [op |-> "start", conn |-> 1, isError |-> FALSE, elapsed |-> 0,
                      attemptBefore |-> 0, jitter |-> 0, reconnected |-> FALSE,
                      readyBefore |-> "none", timedOut |-> FALSE,
                      errorRun |-> 0, runYoung |-> TRUE]
    /\ demo = DemoStart

Init == Start(DefaultMaxReconnectAttempts)

\* eventSource "final" listener
FinalEvent(p) ==
    LET actions == finalHandler(PB, p)
        pb == perform(PB, actions)
    IN  /\ Listening
        /\ InBounds(pb)
        /\ SetPB(pb)
        /\ SetTG(finalFlags(TG, p))
        /\ last' = [Ran("final", pb, actions) EXCEPT
                        !.parsed = Parses(p),
                        !.before = utterance,
                        !.word = p \in WithWord]
        /\ utterance' = Follows(utterance, EventClass("final", p))
        /\ UNCHANGED <<sessionVars, demo>>

\* eventSource "partial" listener
PartialEvent(p) ==
    /\ Listening
    /\ SetTG(partialHandler(TG, p))
    /\ last' = [Last("partial") EXCEPT
                    !.parsed = Parses(p),
                    !.before = utterance,
                    !.word = p \in WithWord]
    /\ utterance' = Follows(utterance, EventClass("partial", p))
    /\ UNCHANGED <<isSpeaking, requests, reqCount, interrupts, intCount>>
    /\ UNCHANGED <<sessionVars, demo>>

\* stdin "data" listener, the 's' key
KeyS ==
    LET pb == speakText(PB, LONG_TEXT, DefaultLanguageCode)
    IN  /\ Running
        /\ InBounds(pb)
        /\ SetPB(pb)
        /\ last' = Ran("keyS", pb, <<"Speak">>)
        /\ UNCHANGED <<hasFinalTranscript, keywordDetected,
                       consecutiveKeywordDetection, utterance>>
        /\ UNCHANGED <<sessionVars, demo>>

\* a space key handler that also clears the trigger flags
KeySpaceRearms ==
    LET pb == interruptSpeech(PB).pb
    IN  /\ Running
        /\ InBounds(pb)
        /\ SetPB(pb)
        /\ last' = Ran("keySpace", pb, <<"Interrupt">>)
        /\ SetTG([hasFinalTranscript |-> FALSE, keywordDetected |-> FALSE,
                  consecutiveKeywordDetection |-> FALSE])
        /\ UNCHANGED utterance
        /\ UNCHANGED <<sessionVars, demo>>

\* stdin "data" listener, the space key
KeySpace ==
    LET pb == interruptSpeech(PB).pb
    IN  /\ Running
        /\ InBounds(pb)
        /\ SetPB(pb)
        /\ last' = Ran("keySpace", pb, <<"Interrupt">>)
        /\ UNCHANGED <<hasFinalTranscript, keywordDetected,
                       consecutiveKeywordDetection, utterance>>
        /\ UNCHANGED <<sessionVars, demo>>

\* a settle whose catch block ends the process on a failed request
RequestSettlesExitsOnFailure(id, s) ==
    /\ Running
    /\ id \in DOMAIN requests
    /\ LET response == makeInterruptibleRequest(requests[id].enableRSTInterruption, s)
           pb == speakTextSettled(PB, id, response)
       IN  /\ SetPB(pb)
           /\ last' = [Ran("settle", pb, <<>>) EXCEPT
                           !.req = id,
                           !.report = speakTextReport(response),
                           !.cause = s.code,
                           !.forciblyClosed = s.forciblyClosed,
                           !.interruptRequested = requests[id].interruptRequested]
           /\ exited' = (speakTextReport(response) = "Failed")
    /\ UNCHANGED <<hasFinalTranscript, keywordDetected,
                   consecutiveKeywordDetection, utterance>>
    /\ UNCHANGED <<eventSources, elapsed, timeoutExceeded, timeoutTimer, reconnectAttempt,
                   reconnectTimer, isFirstConnection, maxReconnectAttempts, lastSession,
                   demo>>

\* a speak request settles and speakText resumes after its await
RequestSettles(id, s) ==
    /\ Running
    /\ id \in DOMAIN requests
    /\ LET response == makeInterruptibleRequest(requests[id].enableRSTInterruption, s)
           pb == speakTextSettled(PB, id, response)
       IN  /\ SetPB(pb)
           /\ last' = [Ran("settle", pb, <<>>) EXCEPT
                           !.req = id,
                           !.report = speakTextReport(response),
                           !.cause = s.code,
                           !.forciblyClosed = s.forciblyClosed,
                           !.interruptRequested = requests[id].interruptRequested,
                           !.response = response,
                           !.enableRSTInterruption = requests[id].enableRSTInterruption]
    /\ UNCHANGED <<hasFinalTranscript, keywordDetected,
                   consecutiveKeywordDetection, utterance>>
    /\ UNCHANGED <<sessionVars, demo>>

\* a call of makeInterruptibleRequest(options) on its own, up to req.end(): the
\* options' enableRSTInterruption is false unless the caller sets it
RequestMade(enableRSTInterruption) ==
    /\ Running
    /\ reqCount < MaxRequests
    /\ reqCount' = reqCount + 1
    /\ requests' = Put(requests, reqCount + 1,
                       [text |-> LONG_TEXT, language_code |-> "en-US",
                        enableRSTInterruption |-> enableRSTInterruption,
                        interruptRequested |-> FALSE])
    /\ last' = [Last("request") EXCEPT !.req = reqCount + 1, !.started = 1,
                                       !.enableRSTInterruption = enableRSTInterruption]
    /\ UNCHANGED <<isSpeaking, interrupts, intCount, hasFinalTranscript, keywordDetected,
                   consecutiveKeywordDetection, utterance>>
    /\ UNCHANGED <<sessionVars, demo>>

promiseSettlesIgnoresOption(id, s) ==
    /\ Running
    /\ id \in DOMAIN requests
    /\ requests' = Drop(requests, id)
    /\ last' = [Last("promise") EXCEPT
                    !.req = id,
                    !.cause = s.code,
                    !.forciblyClosed = s.forciblyClosed,
                    !.response = makeInterruptibleRequest(TRUE, s),
                    !.enableRSTInterruption = requests[id].enableRSTInterruption]
    /\ UNCHANGED <<isSpeaking, reqCount, interrupts, intCount, hasFinalTranscript,
                   keywordDetected, consecutiveKeywordDetection, utterance>>
    /\ UNCHANGED <<sessionVars, demo>>

\* the promise of such a call settles: the response's "end" listener or the
\* request's "error" listener runs
promiseSettles(id, s) ==
    /\ Running
    /\ id \in DOMAIN requests
    /\ requests' = Drop(requests, id)
    /\ last' = [Last("promise") EXCEPT
                    !.req = id,
                    !.cause = s.code,
                    !.forciblyClosed = s.forciblyClosed,
                    !.response = makeInterruptibleRequest(
                                    requests[id].enableRSTInterruption, s),
                    !.enableRSTInterruption = requests[id].enableRSTInterruption]
    /\ UNCHANGED <<isSpeaking, reqCount, interrupts, intCount, hasFinalTranscript,
                   keywordDetected, consecutiveKeywordDetection, utterance>>
    /\ UNCHANGED <<sessionVars, demo>>

\* onSuccess or onError of a sendRSTPacket of interrupt i
ResetCallback(i, which) ==
    /\ Running
    /\ i \in DOMAIN interrupts
    /\ interrupts[i][which] = "pending"
    /\ LET done == [interrupts[i] EXCEPT ![which] = "done"]
       IN  interrupts' = IF done.first = "done" /\ done.backup = "done"
                         THEN Drop(interrupts, i)
                         ELSE Put(interrupts, i, done)
    /\ isSpeaking' = FALSE
    /\ last' = [Last("reset") EXCEPT !.after = interrupts[i].after]
    /\ UNCHANGED <<requests, reqCount, intCount, hasFinalTranscript, keywordDetected,
                   consecutiveKeywordDetection, utterance>>
    /\ UNCHANGED <<sessionVars, demo>>

\* a backup timer set with setInterval: it sends a reset and stays set
BackupTimerRepeats(i) ==
    /\ Running
    /\ i \in DOMAIN interrupts
    /\ interrupts[i].backup = "timer"
    /\ interrupts' = Put(interrupts, i, [interrupts[i] EXCEPT !.sent = @ + 1])
    /\ last' = [Last("backupTimer") EXCEPT !.after = interrupts[i].after]
    /\ UNCHANGED <<isSpeaking, requests, reqCount, intCount, hasFinalTranscript,
                   keywordDetected, consecutiveKeywordDetection, utterance>>
    /\ UNCHANGED <<sessionVars, demo>>

\* the 200 ms timer of RSTInterruptUtility.interruptSpeech: the backup sendRSTPacket
BackupTimer(i) ==
    /\ Running
    /\ i \in DOMAIN interrupts
    /\ interrupts[i].backup = "timer"
    /\ interrupts' = Put(interrupts, i, [interrupts[i] EXCEPT !.backup = "pending",
                                                              !.sent = @ + 1])
    /\ last' = [Last("backupTimer") EXCEPT !.after = interrupts[i].after]
    /\ UNCHANGED <<isSpeaking, requests, reqCount, intCount, hasFinalTranscript,
                   keywordDetected, consecutiveKeywordDetection, utterance>>
    /\ UNCHANGED <<sessionVars, demo>>

\* an onopen handler that forgives the earlier errors
ConnectionOpensResetsAttempt ==
    /\ Running
    /\ eventSources # <<>>
    /\ eventSources[Len(eventSources)] = "CONNECTING"
    /\ eventSources' = [eventSources EXCEPT ![Len(eventSources)] = "OPEN"]
    /\ isFirstConnection' = FALSE
    /\ reconnectAttempt' = 0
    /\ lastSession' = LastSession("open")
    /\ UNCHANGED <<elapsed, timeoutExceeded, timeoutTimer,
                   reconnectTimer, exited, maxReconnectAttempts>>
    /\ UNCHANGED <<playbackVars, demo>>

\* eventSource.onopen
ConnectionOpens ==
    /\ Running
    /\ eventSources # <<>>
    /\ eventSources[Len(eventSources)] = "CONNECTING"
    /\ eventSources' = [eventSources EXCEPT ![Len(eventSources)] = "OPEN"]
    /\ isFirstConnection' = FALSE
    /\ lastSession' = LastSession("open")
    /\ UNCHANGED <<elapsed, timeoutExceeded, timeoutTimer, reconnectAttempt,
                   reconnectTimer, exited, maxReconnectAttempts>>
    /\ UNCHANGED <<playbackVars, demo>>

\* the clock moves on while the latest connection is connecting or open
TimePasses(t) ==
    /\ Running
    /\ eventSources[Len(eventSources)] # "CLOSED"
    /\ t > elapsed
    /\ elapsed' = t
    /\ UNCHANGED <<eventSources, timeoutExceeded, timeoutTimer, reconnectAttempt,
                   reconnectTimer, isFirstConnection, exited, maxReconnectAttempts,
                   lastSession>>
    /\ UNCHANGED <<playbackVars, demo>>

\* a timeout timer callback that reconnects by itself
TimeoutTimerFiresAndReconnects ==
    /\ Running
    /\ timeoutTimer = "armed"
    /\ elapsed >= SSE_TIMEOUT_MS
    /\ SetSS(reconnect([SS EXCEPT !.timeoutExceeded = TRUE], FALSE, 0,
                       maxReconnectAttempts))
    /\ lastSession' = LastSession("timeout")
    /\ UNCHANGED <<isFirstConnection, maxReconnectAttempts>>
    /\ UNCHANGED <<playbackVars, demo>>

\* the callback of the timeout timer
TimeoutTimerFires ==
    /\ Running
    /\ timeoutTimer = "armed"
    /\ elapsed >= SSE_TIMEOUT_MS
    /\ timeoutExceeded' = TRUE
    /\ timeoutTimer' = "fired"
    /\ lastSession' = LastSession("timeout")
    /\ UNCHANGED <<eventSources, elapsed, reconnectAttempt, reconnectTimer,
                   isFirstConnection, exited, maxReconnectAttempts>>
    /\ UNCHANGED <<playbackVars, demo>>

\* a "speech_ended" listener that looks at the timer's flag only
SpeechEndedFlagOnly ==
    /\ Listening
    /\ LET due == timeoutExceeded
       IN  /\ SetSS(IF due THEN reconnect(SS, FALSE, 0, maxReconnectAttempts) ELSE SS)
           /\ lastSession' = AfterRestart(
                    [LastSession("speech_ended") EXCEPT !.reconnected = due], due)
    /\ UNCHANGED <<isFirstConnection, maxReconnectAttempts>>
    /\ UNCHANGED <<playbackVars, demo>>

\* eventSource "speech_ended" listener
SpeechEnded ==
    /\ Listening
    /\ LET due == timeoutExceeded \/ elapsed >= SSE_TIMEOUT_MS
       IN  /\ SetSS(IF due THEN reconnect(SS, FALSE, 0, maxReconnectAttempts) ELSE SS)
           /\ lastSession' = AfterRestart(
                    [LastSession("speech_ended") EXCEPT !.reconnected = due], due)
    /\ UNCHANGED <<isFirstConnection, maxReconnectAttempts>>
    /\ UNCHANGED <<playbackVars, demo>>

\* an onerror handler that calls reconnect() without its argument
ConnectionErrorAsTimeout(readyState, jitter) ==
    /\ Running
    /\ eventSources[Len(eventSources)] # "CLOSED"
    /\ LET ss == [SS EXCEPT !.eventSources[Current(SS)] = readyState]
       IN  SetSS(reconnect(ss, FALSE, jitter, maxReconnectAttempts))
    /\ lastSession' = AfterError([LastSession("error") EXCEPT
                                        !.isError = TRUE,
                                        !.jitter = jitter,
                                        !.reconnected = TRUE], elapsed)
    /\ UNCHANGED <<isFirstConnection, maxReconnectAttempts>>
    /\ UNCHANGED <<playbackVars, demo>>

\* eventSource.onerror: the library has left the connection CONNECTING (it would
\* retry by itself) or CLOSED (it gave up) when the handler runs
ConnectionError(readyState, jitter) ==
    /\ Running
    /\ eventSources[Len(eventSources)] # "CLOSED"
    /\ LET ss == [SS EXCEPT !.eventSources[Current(SS)] = readyState]
       IN  SetSS(reconnect(ss, TRUE, jitter, maxReconnectAttempts))
    /\ lastSession' = AfterError([LastSession("error") EXCEPT
                                        !.isError = TRUE,
                                        !.jitter = jitter,
                                        !.reconnected = TRUE], elapsed)
    /\ UNCHANGED <<isFirstConnection, maxReconnectAttempts>>
    /\ UNCHANGED <<playbackVars, demo>>

\* a reconnect that keeps the trigger flags of the connection it replaces
ReconnectTimerFiresKeepsTrigger ==
    /\ Running
    /\ reconnectTimer # <<>>
    /\ Len(eventSources) < MaxConnections
    /\ SetSS(listenForKeyword(SS, reconnectTimer[1].attempt))
    /\ lastSession' = LastSession("listen")
    /\ UNCHANGED <<isFirstConnection, maxReconnectAttempts, demo>>
    /\ UNCHANGED playbackVars

\* the callback of the timer reconnect sets: listenForKeyword(workstationId,
\* reconnectAttempt), whose locals start over
ReconnectTimerFires ==
    /\ Running
    /\ reconnectTimer # <<>>
    /\ Len(eventSources) < MaxConnections
    /\ SetSS(listenForKeyword(SS, reconnectTimer[1].attempt))
    /\ SetTG([hasFinalTranscript |-> FALSE, keywordDetected |-> FALSE,
              consecutiveKeywordDetection |-> FALSE])
    /\ utterance' = "Idle"
    /\ lastSession' = LastSession("listen")
    /\ UNCHANGED <<isFirstConnection, maxReconnectAttempts, demo>>
    /\ UNCHANGED <<isSpeaking, requests, reqCount, interrupts, intCount, last>>

Next ==
    \/ \E p \in Payloads : FinalEvent(p)
    \/ \E p \in Payloads : PartialEvent(p)
    \/ KeyS
    \/ KeySpace
    \/ \E id \in 1..MaxRequests, s \in Settlements : RequestSettles(id, s)
    \/ \E i \in 1..MaxInterrupts, which \in {"first", "backup"} : ResetCallback(i, which)
    \/ \E i \in 1..MaxInterrupts : BackupTimer(i)
    \/ ConnectionOpens

Spec == Init /\ [][Next]_vars

SessionInit == \E m \in MaxAttemptsChoices : Start(m)

SessionNext ==
    \/ ConnectionOpens
    \/ \E k \in DOMAIN ClockPoints : TimePasses(ClockPoints[k])
    \/ TimeoutTimerFires
    \/ SpeechEnded
    \/ \E readyState \in {"CONNECTING", "CLOSED"}, jitter \in Jitters :
            ConnectionError(readyState, jitter)
    \/ ReconnectTimerFires

\* the transcript session by itself, playback idle
SessionSpec == SessionInit /\ [][SessionNext]_vars

\* the same with the event loop running the callback of a pending reconnect timer
SessionFairSpec ==
    SessionInit /\ [][SessionNext]_vars /\ WF_vars(ReconnectTimerFires)

ListenNext ==
    \/ ConnectionOpens
    \/ \E k \in DOMAIN ClockPoints : TimePasses(ClockPoints[k])
    \/ TimeoutTimerFires
    \/ SpeechEnded
    \/ \E readyState \in {"CONNECTING", "CLOSED"}, jitter \in Jitters :
            ConnectionError(readyState, jitter)
    \/ Len(eventSources) < MaxHeardConnections /\ ReconnectTimerFires
    \/ \E p \in Payloads : FinalEvent(p)
    \/ \E p \in Payloads : PartialEvent(p)
    \/ KeyS

\* the first connections of a session together with the transcript events and
\* the playback they start
ListenSpec == SessionInit /\ [][ListenNext]_vars

CoreInit == Start(TightMaxReconnectAttempts)

CoreNext ==
    \/ ConnectionOpens
    \/ \E readyState \in {"CONNECTING", "CLOSED"}, jitter \in Jitters :
            ConnectionError(readyState, jitter)
    \/ Len(eventSources) < MaxHeardConnections /\ ReconnectTimerFires
    \/ \E p \in Payloads : FinalEvent(p)
    \/ KeySpace
    \/ \E id \in 1..MaxRequests, s \in Settlements : RequestSettles(id, s)
    \/ \E i \in 1..MaxInterrupts, which \in {"first", "backup"} : ResetCallback(i, which)
    \/ \E i \in 1..MaxInterrupts : BackupTimer(i)

\* playback, its interrupts and its failures on a session that errors, reconnects
\* and runs out of its budget, the limit being the tightest
CoreSpec == CoreInit /\ [][CoreNext]_vars

\* makeInterruptibleRequest on its own, called with either value of its
\* enableRSTInterruption option and settled by a response or by an error
RequestNext ==
    \/ \E enableRSTInterruption \in BOOLEAN : RequestMade(enableRSTInterruption)
    \/ \E id \in 1..MaxRequests, s \in RequestSettlements : promiseSettles(id, s)

RequestSpec == Init /\ [][RequestNext]_vars

\* the Puppeteer demo on its own: runDemo() from its call to its settlement
DemoNext ==
    \/ \E apiKey \in BOOLEAN : CallMain(apiKey)
    \/ \E ok \in BOOLEAN : createWorkstation(ok)
    \/ \E ok \in BOOLEAN : connectBrowser(ok)
    \/ \E ok \in BOOLEAN : newPage(ok)
    \/ \E ok \in BOOLEAN : performGoogleSearch(ok)
    \/ \E ok \in BOOLEAN : clickSearchResult(ok)
    \/ \E ok \in BOOLEAN : navigateToLaunchPage(ok)
    \/ mainCatch
    \/ \E ok \in BOOLEAN : cleanupClose(ok)
    \/ \E ok \in BOOLEAN : cleanupDelete(ok)
    \/ runCatch
    \/ \E yes \in BOOLEAN : Answer(yes)
    \/ runDemoFinally

DemoSpec == Init /\ [][DemoNext]_vars

----------------------------------------------------------------------------
(* Properties *)

InFlight == DOMAIN requests

KeywordFinal == last.op = "final" /\ last.word

ResetCauses == {"ECONNRESET", "ERR_SOCKET"}

\* C1: in every reachable state at most one speak request is in flight (sent and
\* not yet resolved or rejected).
C1_AtMostOneInFlight == Cardinality(InFlight) <= 1

\* C2: in a run of consecutive finals that all contain the keyword, with no
\* partial between them, the 2nd to Nth final dispatch nothing.
C2_RunDispatchesOnce ==
    (KeywordFinal /\ last.before = "Armed") => last.actions = <<>>

\* C3: every well-formed final whose transcript contains the keyword as a
\* case-insensitive whole word dispatches exactly one action, Speak (one request
\* started) or Interrupt (none started), never both and never none.
C3_KeywordFinalDispatchesOne ==
    KeywordFinal =>
        \/ last.actions = <<"Speak">> /\ last.started = 1
        \/ last.actions = <<"Interrupt">> /\ last.started = 0

C3_Witness == KeywordFinal /\ Len(last.actions) = 1 /\ last.before = "Idle"

\* C4: a final with the keyword that arrives while isSpeaking is true dispatches
\* Interrupt: isSpeaking is false when the handler returns, resets were issued and
\* no new speak request was started.
C4_KeywordWhileSpeakingInterrupts ==
    (KeywordFinal /\ last.wasSpeaking) =>
        /\ last.actions = <<"Interrupt">>
        /\ ~isSpeaking
        /\ last.started = 0
        /\ last.resets = 1

C4_Witness ==
    KeywordFinal /\ last.wasSpeaking /\ ~isSpeaking /\ last.actions = <<"Interrupt">>

\* C5: a final with the keyword that arrives while isSpeaking is false dispatches
\* Speak: exactly one speak request, carrying LONG_TEXT, is started and in flight
\* and isSpeaking is true when the handler returns.
C5_KeywordWhileIdleSpeaks ==
    (KeywordFinal /\ ~last.wasSpeaking) =>
        /\ last.actions = <<"Speak">>
        /\ last.started = 1
        /\ last.resets = 0
        /\ isSpeaking
        /\ reqCount \in InFlight
        /\ requests[reqCount].text = LONG_TEXT

C5_Witness ==
    KeywordFinal /\ ~last.wasSpeaking /\ isSpeaking /\ last.actions = <<"Speak">>

\* C6: a partial disarms the trigger: a parsed partial leaves keywordDetected and
\* consecutiveKeywordDetection false, and in the sequence final(keyword), partial,
\* final(keyword) the second final dispatches one fresh action.
C6_PartialDisarms ==
    /\ (last.op = "partial" /\ last.parsed) =>
            ~keywordDetected /\ ~consecutiveKeywordDetection /\ ~hasFinalTranscript
    /\ (KeywordFinal /\ last.before = "Disarmed") => Len(last.actions) = 1

C6_Witness == KeywordFinal /\ last.before = "Disarmed" /\ Len(last.actions) = 1

\* C7: a final whose transcript does not contain the keyword dispatches no action,
\* leaves isSpeaking, the requests in flight and the resets under way unchanged,
\* and leaves keywordDetected false.
C7_FinalWithoutKeyword ==
    [][(last'.op = "final" /\ last'.parsed /\ ~last'.word) =>
            /\ last'.actions = <<>>
            /\ UNCHANGED <<isSpeaking, requests, reqCount, interrupts, intCount>>
            /\ ~keywordDetected']_vars

C7_Witness ==
    /\ last.op = "final" /\ last.parsed /\ ~last.word
    /\ isSpeaking /\ InFlight # {} /\ ~keywordDetected

\* C8: when a speak request superseded by a newer one settles, isSpeaking stays
\* true while the newer request is still in flight.
C8_SupersededSettleKeepsSpeaking ==
    (last.op = "settle" /\ last.wasSpeaking /\ \E id \in InFlight : id > last.req)
        => isSpeaking

\* C9: an interrupt after an interrupt sends no further resets, and no callback of
\* an earlier interrupt's resets changes the playback state of a request started
\* after that interrupt.
C9_AbortIdempotentAndIsolated ==
    /\ (last.op = "keySpace" /\ ~last.wasSpeaking) => last.resets = 0 /\ ~isSpeaking
    /\ (last.op = "reset" /\ last.wasSpeaking /\ reqCount > last.after) => isSpeaking

\* C10: a speak request that ends with a connection reset is reported Interrupted
\* when an interrupt had been requested for it; every other transport failure,
\* a reset with no interrupt requested included, is reported Failed.
C10_ResetIsInterruptedOnlyOnRequest ==
    (last.op = "settle" /\ last.cause # "none") =>
        IF last.cause \in ResetCauses /\ last.interruptRequested
        THEN last.report = "Interrupted"
        ELSE last.report = "Failed"

\* C11: whenever a speak request ends (completed, interrupted or failed),
\* isSpeaking is false right afterwards, and a final with the keyword that arrives
\* while no request is in flight dispatches Speak.
C11_NeverStuckSpeaking ==
    [][/\ last'.op = "settle" => ~isSpeaking'
       /\ (last'.op = "final" /\ last'.word /\ InFlight = {}) =>
                last'.actions = <<"Speak">>]_vars

C11_Witness ==
    last.op = "settle" /\ last.report = "Failed" /\ last.wasSpeaking /\ ~isSpeaking

\* C12: an interrupt made while Speaking leaves isSpeaking false when it returns,
\* before either reset of that interrupt has called back: the first reset is still
\* pending and the backup one is still on its timer.
C12_InterruptIsSynchronous ==
    (last.op \in {"final", "keySpace"} /\ last.actions = <<"Interrupt">>
        /\ last.wasSpeaking) =>
        /\ ~isSpeaking
        /\ intCount \in DOMAIN interrupts
        /\ interrupts[intCount].first = "pending"
        /\ interrupts[intCount].backup = "timer"

C12_Witness ==
    /\ last.op = "keySpace" /\ last.wasSpeaking /\ ~isSpeaking
    /\ interrupts[intCount].first = "pending"

\* C13: two finals with the keyword delivered back to back from Idle, with no
\* other handler between them, dispatch Speak and then Interrupt, never two Speaks.
C13_SpeakThenInterrupt ==
    [][(KeywordFinal /\ last.actions = <<"Speak">> /\ last'.op = "final" /\ last'.word)
            => (isSpeaking /\ last'.actions = <<"Interrupt">>)]_vars

C13_Witness ==
    /\ KeywordFinal /\ last.before = "Armed" /\ last.actions = <<"Interrupt">>
    /\ reqCount = 1 /\ InFlight = {1} /\ requests[1].interruptRequested


\* the latest connection
Latest == Len(eventSources)

\* the latest connection has been closed
Closed == eventSources[Latest] = "CLOSED"

\* a reconnect timer is pending
Scheduled == reconnectTimer # <<>>

\* the delay of a reconnect without backoff
FlatDelay == Ms(RESTART_DELAY_MS)

\* a step in which the timeout timer's callback runs
TimerStep == lastSession' # lastSession /\ lastSession'.op = "timeout"

\* a step in which the "speech_ended" listener runs and the session record changes
SpeechEndedStep == lastSession' # lastSession /\ lastSession'.op = "speech_ended"

\* C14: the firing of the timeout timer never closes the connection and never
\* schedules a reconnect: it only sets timeoutExceeded, and a connection is
\* closed only in a speech_ended or error step.
C14_TimerOnlyMarks ==
    [][/\ TimerStep =>
            /\ timeoutExceeded'
            /\ eventSources' = eventSources
            /\ eventSources[Latest] # "CLOSED"
            /\ reconnectTimer' = <<>>
            /\ reconnectAttempt' = reconnectAttempt
            /\ ~exited'
       /\ (eventSources[Latest] # "CLOSED" /\ eventSources'[Latest] = "CLOSED") =>
            lastSession'.op \in {"speech_ended", "error"}]_vars

C14_Witness ==
    /\ lastSession.op = "timeout"
    /\ timeoutExceeded
    /\ timeoutTimer = "fired"
    /\ eventSources[Latest] = "OPEN"
    /\ ~Scheduled

\* C15: a speech_ended event reconnects if and only if the timeout timer has fired
\* or the time since the connection was made has reached the timeout; before that
\* it leaves the session as it is; it never changes trigger or playback state and
\* starts no request and no interrupt.
C15_SpeechEndedReconnectsWhenDue ==
    [][SpeechEndedStep =>
            /\ (reconnectTimer' # <<>>) <=> (timeoutExceeded \/ elapsed >= SSE_TIMEOUT_MS)
            /\ (eventSources'[Latest] = "CLOSED") <=> (reconnectTimer' # <<>>)
            /\ reconnectTimer' = <<>> =>
                    UNCHANGED <<eventSources, elapsed, timeoutExceeded, timeoutTimer,
                                reconnectAttempt, exited>>
            /\ UNCHANGED <<isSpeaking, requests, reqCount, interrupts, intCount,
                           hasFinalTranscript, keywordDetected,
                           consecutiveKeywordDetection, last>>]_vars

C15_Witness ==
    /\ lastSession.op = "speech_ended"
    /\ ~lastSession.timedOut
    /\ lastSession.elapsed = SSE_TIMEOUT_MS
    /\ Closed
    /\ Scheduled
    /\ keywordDetected
    /\ isSpeaking

\* C16 as stated: every error on the transcript connection ends with a reconnect
\* scheduled and the attempt counter incremented.
C16_ErrorAlwaysReconnects ==
    lastSession.op = "error" => (Scheduled /\ reconnectAttempt >= 1)

\* C16, amended: every error runs the error branch of reconnect: the connection
\* is closed, the attempt counter is one more than the (possibly forgiven) count,
\* and a reconnect is scheduled, flat on attempt 1 and backed off beyond, unless
\* the counter exceeds a positive maxReconnectAttempts, when the process exits.
C16_ErrorRunsErrorBranch ==
    lastSession.op = "error" =>
        /\ Closed
        /\ timeoutTimer = "cleared"
        /\ reconnectAttempt \in {1, lastSession.attemptBefore + 1}
        /\ IF maxReconnectAttempts > 0 /\ reconnectAttempt > maxReconnectAttempts
           THEN exited /\ ~Scheduled
           ELSE /\ ~exited
                /\ Scheduled
                /\ reconnectTimer[1].attempt = reconnectAttempt
                /\ IF reconnectAttempt = 1
                   THEN Same(reconnectTimer[1].delay, FlatDelay)
                   ELSE Less(Ms(BASE_RECONNECT_DELAY_MS), reconnectTimer[1].delay)

C16_Witness ==
    /\ lastSession.op = "error"
    /\ lastSession.readyBefore = "OPEN"
    /\ lastSession.attemptBefore = 2
    /\ reconnectAttempt = 3
    /\ Scheduled
    /\ Closed

\* C17: a reconnect made by speech_ended uses exactly the flat restart delay,
\* leaves the attempt counter at 0 whatever it was, and never exits.
C17_TimeoutReconnectIsFlat ==
    (lastSession.op = "speech_ended" /\ Closed) =>
        /\ reconnectAttempt = 0
        /\ reconnectTimer = <<[delay |-> FlatDelay, attempt |-> 0]>>
        /\ ~exited

C17_Witness ==
    /\ lastSession.op = "speech_ended"
    /\ lastSession.attemptBefore = 3
    /\ Closed
    /\ reconnectAttempt = 0
    /\ Scheduled

\* C18: on an error with attempt 0 on a connection younger than 60 s the attempt
\* counter becomes 1 and the delay is exactly the restart delay, whatever the
\* random number.
C18_FirstErrorIsFlat ==
    (/\ lastSession.op = "error"
     /\ lastSession.attemptBefore = 0
     /\ lastSession.elapsed < AttemptResetAfterMs) =>
        /\ reconnectAttempt = 1
        /\ reconnectTimer = <<[delay |-> FlatDelay, attempt |-> 1]>>

C18_Witness ==
    /\ lastSession.op = "error"
    /\ lastSession.attemptBefore = 0
    /\ lastSession.elapsed = 0
    /\ lastSession.jitter = JitterBoundMs - 1
    /\ reconnectAttempt = 1
    /\ Scheduled
    /\ Same(reconnectTimer[1].delay, FlatDelay)

\* C19: on an error with attempt 1 on a connection younger than 60 s the counter
\* becomes 2 and the delay is base x 1.5 plus the jitter; for every incremented
\* attempt n > 1 that schedules, the delay is min(base x 1.5^(n-1), maxDelay)
\* plus a jitter in [0, 1000). The equations are multiplied through by 2^(n-1).
C19_BackoffDelay ==
    (lastSession.op = "error" /\ Scheduled) =>
        LET n == reconnectAttempt
            j == lastSession.jitter
            d == reconnectTimer[1].delay
            scale == Pow(2, n - 1)
            grown == BASE_RECONNECT_DELAY_MS * Pow(3, n - 1)
            capped == MAX_RECONNECT_DELAY_MS * scale
        IN  /\ (lastSession.attemptBefore = 1 /\ lastSession.elapsed < AttemptResetAfterMs) =>
                    /\ n = 2
                    /\ 2 * d.num = (3 * BASE_RECONNECT_DELAY_MS + 2 * j) * d.den
            /\ n > 1 =>
                    /\ j >= 0 /\ j < JitterBoundMs
                    /\ scale * d.num =
                            ((IF grown <= capped THEN grown ELSE capped) + j * scale) * d.den

C19_Witness ==
    /\ lastSession.op = "error"
    /\ lastSession.attemptBefore = 1
    /\ lastSession.elapsed = 0
    /\ lastSession.jitter = JitterBoundMs \div 2
    /\ reconnectAttempt = 2
    /\ Scheduled
    /\ Same(reconnectTimer[1].delay, Ms(2 * BASE_RECONNECT_DELAY_MS))

\* C20: on an error on a connection that has lasted more than 60000 ms the result
\* is attempt 1 with the flat restart delay and no exit, whatever the attempt
\* counter was.
C20_LongConnectionForgives ==
    (lastSession.op = "error" /\ lastSession.elapsed > AttemptResetAfterMs) =>
        /\ reconnectAttempt = 1
        /\ reconnectTimer = <<[delay |-> FlatDelay, attempt |-> 1]>>
        /\ ~exited

C20_Witness ==
    /\ lastSession.op = "error"
    /\ lastSession.elapsed > AttemptResetAfterMs
    /\ lastSession.attemptBefore = maxReconnectAttempts
    /\ maxReconnectAttempts = DefaultMaxReconnectAttempts
    /\ reconnectAttempt = 1
    /\ Scheduled
    /\ ~exited


\* C21 as stated: an error on a connection that has lasted 60000 ms or more,
\* exactly 60000 ms included, resets the attempt counter to 0 before the increment.
C21_ResetFromSixtySeconds ==
    (lastSession.op = "error" /\ lastSession.elapsed >= AttemptResetAfterMs) =>
        reconnectAttempt = 1

\* C21, amended: an error resets the attempt counter to 0 before the increment
\* exactly when the connection has lasted more than 60000 ms; at exactly 60000 ms
\* the counter is incremented from its previous value.
C21_ResetAfterSixtySeconds ==
    lastSession.op = "error" =>
        reconnectAttempt = (IF lastSession.elapsed > AttemptResetAfterMs
                            THEN 0 ELSE lastSession.attemptBefore) + 1

C21_Witness ==
    /\ lastSession.op = "error"
    /\ lastSession.elapsed = AttemptResetAfterMs
    /\ lastSession.attemptBefore = 2
    /\ reconnectAttempt = 3
    /\ Scheduled

\* C22: with maxAttempts = 10, in a run of consecutive errors, each on a connection
\* younger than 60 s and with no non-error reconnect between them, each of the
\* first 10 errors schedules a reconnect and the 11th exits without scheduling one.
C22_EleventhErrorIsFatal ==
    (/\ maxReconnectAttempts = DefaultMaxReconnectAttempts
     /\ lastSession.op = "error"
     /\ lastSession.runYoung) =>
        /\ lastSession.errorRun <= DefaultMaxReconnectAttempts + 1
        /\ lastSession.errorRun <= DefaultMaxReconnectAttempts =>
                (Scheduled /\ ~exited /\ Closed)
        /\ lastSession.errorRun = DefaultMaxReconnectAttempts + 1 =>
                (exited /\ ~Scheduled)

C22_Witness ==
    /\ maxReconnectAttempts = DefaultMaxReconnectAttempts
    /\ lastSession.op = "error"
    /\ lastSession.runYoung
    /\ lastSession.errorRun = DefaultMaxReconnectAttempts + 1
    /\ Len(eventSources) = DefaultMaxReconnectAttempts + 1
    /\ exited
    /\ ~Scheduled

\* C23: with maxAttempts = 0 the process never exits: after every error, however
\* many came before, a reconnect is scheduled.
C23_ZeroMeansUnlimited ==
    maxReconnectAttempts = 0 =>
        /\ ~exited
        /\ lastSession.op = "error" => (Scheduled /\ Closed)

C23_Witness ==
    /\ maxReconnectAttempts = 0
    /\ lastSession.op = "error"
    /\ lastSession.runYoung
    /\ lastSession.errorRun = DefaultMaxReconnectAttempts + 1
    /\ reconnectAttempt = DefaultMaxReconnectAttempts + 1
    /\ Scheduled
    /\ ~exited


\* the connections that are not closed
LiveConnections == {i \in DOMAIN eventSources : eventSources[i] # "CLOSED"}

\* C24: no reachable state has the latest connection closed with neither a
\* reconnect pending nor the process ended: every step that closes a connection
\* schedules one or the other, never both.
C24_NoDeadSession ==
    /\ Closed => (Scheduled \/ exited)
    /\ ~(Scheduled /\ exited)

C24_Witness ==
    /\ lastSession.op = "speech_ended"
    /\ lastSession.timedOut
    /\ Closed
    /\ Scheduled
    /\ ~exited

\* C25: at most one connection is not CLOSED, it is the latest one, and while a
\* reconnect timer is pending no connection is live.
C25_OneLiveConnection ==
    /\ Cardinality(LiveConnections) <= 1
    /\ LiveConnections \subseteq {Latest}
    /\ Scheduled => LiveConnections = {}

C25_Witness ==
    /\ Len(eventSources) = 3
    /\ LiveConnections = {3}
    /\ eventSources[3] = "OPEN"
    /\ lastSession.op = "open"
    /\ ~Scheduled

\* C26: with the reconnect timer's callback run by the event loop, every error
\* that does not end the process is eventually followed by a new connection
\* (stated up to the bound on connections).
C26_ErrorLeadsToNewConnection ==
    (lastSession.op = "error" /\ ~exited /\ Len(eventSources) < MaxConnections)
        ~> (lastSession.op = "listen" /\ eventSources[Latest] = "CONNECTING")

C26_Witness ==
    /\ lastSession.op = "listen"
    /\ lastSession.attemptBefore = 2
    /\ reconnectAttempt = 2
    /\ Len(eventSources) = 3
    /\ eventSources[Latest] = "CONNECTING"
    /\ ~Scheduled


\* the last handler was a transcript listener given a payload that does not parse
Malformed(l) == l.op \in {"partial", "final"} /\ ~l.parsed

\* C27: a partial or final event whose payload does not parse dispatches nothing,
\* leaves the trigger flags, the playback state and the session as they are, with
\* the connection still open, and a keyword final that follows it dispatches its
\* one action as usual.
C27_MalformedEventDropped ==
    [][/\ (last' # last /\ Malformed(last')) =>
            /\ last'.actions = <<>>
            /\ last'.started = 0
            /\ last'.resets = 0
            /\ UNCHANGED <<hasFinalTranscript, keywordDetected,
                           consecutiveKeywordDetection>>
            /\ UNCHANGED <<isSpeaking, requests, reqCount, interrupts, intCount>>
            /\ UNCHANGED <<sessionVars, demo>>
            /\ eventSources'[Latest] = "OPEN"
            /\ ~exited'
       /\ (Malformed(last) /\ last' # last /\ last'.op = "final" /\ last'.word) =>
            /\ last'.actions = <<keywordAction(isSpeaking)>>
            /\ keywordDetected']_vars

C27_Witness ==
    /\ last.op = "final"
    /\ ~last.parsed
    /\ keywordDetected
    /\ hasFinalTranscript
    /\ isSpeaking
    /\ reconnectAttempt = 1
    /\ eventSources[Latest] = "OPEN"


\* C29: an interrupt made while speaking sends one reset at once and sets the
\* timer of a second; the second is sent when that timer fires; an interrupt never
\* sends a third, and it is over only when both were sent.
C29_TwoResetsPerInterrupt ==
    [][/\ intCount' \in {intCount, intCount + 1}
       /\ \A i \in 1..MaxInterrupts :
            /\ (i \notin DOMAIN interrupts /\ i \in DOMAIN interrupts') =>
                    /\ i = intCount'
                    /\ last'.wasSpeaking
                    /\ last'.resets = 1
                    /\ interrupts'[i].sent = 1
                    /\ interrupts'[i].first = "pending"
                    /\ interrupts'[i].backup = "timer"
            /\ (i \in DOMAIN interrupts /\ i \in DOMAIN interrupts') =>
                    /\ interrupts'[i].sent \in {interrupts[i].sent, interrupts[i].sent + 1}
                    /\ interrupts'[i].sent <= 2
                    /\ interrupts'[i].sent > interrupts[i].sent =>
                            /\ last'.op = "backupTimer"
                            /\ interrupts[i].backup = "timer"
                            /\ interrupts'[i].backup = "pending"
                            /\ interrupts'[i].first = interrupts[i].first
            /\ (i \in DOMAIN interrupts /\ i \notin DOMAIN interrupts') =>
                    interrupts[i].sent = 2]_vars

C29_Witness ==
    /\ 1 \in DOMAIN interrupts
    /\ interrupts[1].sent = 2
    /\ interrupts[1].first = "done"
    /\ interrupts[1].backup = "pending"
    /\ last.op = "backupTimer"


\* C28: the process ends only in an error handler of the transcript connection
\* whose incremented attempt counter exceeds a positive limit; no playback handler
\* (a settled or failed request, a reset callback, the backup timer, an interrupt,
\* a well-formed or malformed final) ends it.
C28_OnlyBudgetExhaustionExits ==
    [][/\ (exited' /\ ~exited) =>
            /\ lastSession' # lastSession
            /\ lastSession'.op = "error"
            /\ last' = last
            /\ maxReconnectAttempts > 0
            /\ reconnectAttempt' > maxReconnectAttempts
       /\ last' # last => (~exited /\ ~exited')]_vars

C28_Witness ==
    /\ last.op = "settle"
    /\ last.report = "Failed"
    /\ lastSession.op = "open"
    /\ reconnectAttempt = 1
    /\ Len(eventSources) = 2
    /\ ~exited

\* the handlers that interrupt or carry an interrupt on
InterruptOp(l) ==
    \/ l.op \in {"keySpace", "reset", "backupTimer"}
    \/ l.op = "final" /\ l.actions = <<"Interrupt">>

\* C30: an interrupt, the callbacks of its resets and its backup timer leave the
\* transcript connection, its timeout flag and timer, the attempt counter and any
\* pending reconnect as they are, and (the keyword final's own flags aside) the
\* trigger flags too; a keyword final that comes next dispatches its one action.
C30_InterruptLeavesSession ==
    [][/\ (last' # last /\ InterruptOp(last')) =>
            /\ UNCHANGED <<eventSources, elapsed, timeoutExceeded, timeoutTimer,
                           reconnectAttempt, reconnectTimer, exited>>
            /\ last'.op # "final" =>
                    UNCHANGED <<hasFinalTranscript, keywordDetected,
                                consecutiveKeywordDetection>>
       /\ (InterruptOp(last) /\ last' # last /\ last'.op = "final" /\ last'.word) =>
            /\ last'.actions = <<keywordAction(isSpeaking)>>
            /\ keywordDetected']_vars

C30_Witness ==
    /\ last.op = "reset"
    /\ ~isSpeaking
    /\ keywordDetected
    /\ reconnectAttempt = 1
    /\ Len(eventSources) = 2
    /\ eventSources[Latest] = "OPEN"

\* runDemo has settled: resolved, or rejected with the error of its first run
DemoFinished == demo.pc \in {"done", "rejected"}

ErrorSettled == last.op \in {"promise", "settle"} /\ last.cause # "none"

\* C32: a request's error resolves it with {interrupted: true} and runs onInterrupt
\* if and only if reset interruption is enabled and the error's code is ECONNRESET
\* or its message contains "Socket forcibly closed"; every other error, and every
\* error with reset interruption off, rejects it.
C32_ResetErrorResolvesWhenEnabled ==
    ErrorSettled =>
        IF last.enableRSTInterruption
                /\ (last.cause = "ECONNRESET" \/ last.forciblyClosed)
        THEN last.response = [settled |-> "resolve", interrupted |-> TRUE,
                              onInterrupt |-> TRUE]
        ELSE last.response = [settled |-> "reject", interrupted |-> FALSE,
                              onInterrupt |-> FALSE]

\* a connection reset on a request made without reset interruption rejects it
C32_Witness ==
    /\ ErrorSettled
    /\ ~last.enableRSTInterruption
    /\ last.cause = "ECONNRESET"
    /\ last.response.settled = "reject"

\* the handler that ran last was a keyword final that dispatched an interrupt
KeywordInterrupt == KeywordFinal /\ last.actions = <<"Interrupt">>

\* C33: the keyword final that comes right after a keyword-triggered interrupt,
\* before the 500 ms timer of that interrupt has run, dispatches no action.
C33_NoRetriggerAfterInterrupt ==
    [][(KeywordInterrupt /\ last' # last /\ last'.op = "final" /\ last'.word)
            => last'.actions = <<>>]_vars

\* C34: whenever isSpeaking is true, the speak request that was started last is
\* still in flight: it has neither resolved nor rejected.
C34_SpeakingMeansLatestInFlight ==
    isSpeaking => reqCount \in InFlight

\* playback is on and its request is pending
C34_Witness ==
    /\ isSpeaking
    /\ reqCount = 1
    /\ 1 \in InFlight

\* C35: an interrupt sends its resets on sockets of its own, one per reset, and
\* leaves the speak requests in flight pending: the handler that interrupts, the
\* callbacks of the resets and the backup timer settle no request, and a request
\* leaves only when its own response ends or its own connection fails.
C35_InterruptSettlesNoRequest ==
    [][/\ (last' # last /\ InterruptOp(last')) =>
            /\ DOMAIN requests' = DOMAIN requests
            /\ \A i \in DOMAIN interrupts' :
                    interrupts'[i].sent =
                        1 + (IF interrupts'[i].backup = "timer" THEN 0 ELSE 1)
       /\ (last' # last /\ last'.op # "settle") =>
            DOMAIN requests \subseteq DOMAIN requests'
       /\ (DOMAIN requests' # DOMAIN requests /\ ~(DOMAIN requests \subseteq DOMAIN requests')) =>
            /\ last'.op = "settle"
            /\ DOMAIN requests' = DOMAIN requests \ {last'.req}
            /\ last'.cause \in {s.code : s \in Settlements}]_vars

\* both resets of an interrupt were sent and answered, the interrupted request is
\* still pending
C35_Witness ==
    /\ last.op = "reset"
    /\ interrupts = <<>>
    /\ intCount = 1
    /\ 1 \in InFlight
    /\ requests[1].interruptRequested

\* listenForKeyword has just run again from the timer a reconnect set
ListenStep == lastSession' # lastSession /\ lastSession'.op = "listen"

\* C36: the call of listenForKeyword a reconnect schedules starts with the three
\* trigger flags false and the timeout flag false, takes the attempt counter the
\* reconnect passed on, and leaves isSpeaking, the speak requests in flight and
\* the interrupts under way as they are.
C36_ReconnectDisarmsTriggerOnly ==
    [][ListenStep =>
            /\ ~hasFinalTranscript'
            /\ ~keywordDetected'
            /\ ~consecutiveKeywordDetection'
            /\ ~timeoutExceeded'
            /\ reconnectAttempt' = reconnectTimer[1].attempt
            /\ UNCHANGED <<isSpeaking, requests, reqCount, interrupts, intCount>>]_vars

\* a reconnect after an error while playback is in flight
C36_Witness ==
    /\ lastSession.op = "listen"
    /\ reconnectAttempt = 1
    /\ isSpeaking
    /\ 1 \in InFlight
    /\ ~keywordDetected
    /\ last.op = "final"
    /\ last.word

\* onerror or onopen has just run
ErrorStep == lastSession' # lastSession /\ lastSession'.op = "error"

OpenStep == lastSession' # lastSession /\ lastSession'.op = "open"

C38_CounterWithinLimit ==
    maxReconnectAttempts > 0 =>
        /\ ~exited => reconnectAttempt \in 0..maxReconnectAttempts
        /\ \A i \in DOMAIN reconnectTimer :
                reconnectTimer[i].attempt \in 0..maxReconnectAttempts
        /\ exited => reconnectTimer = <<>>

\* a connection made with the counter at the limit
C38_Witness ==
    /\ maxReconnectAttempts = DefaultMaxReconnectAttempts
    /\ lastSession.op = "listen"
    /\ reconnectAttempt = maxReconnectAttempts
    /\ eventSources[Latest] = "CONNECTING"

\* C39: a reconnect scheduled with attempt counter n >= 2 (an error reconnect) has
\* a delay below maxDelay + 1000 ms that is at least the delay before jitter of
\* every attempt from 2 to n plus its own jitter, each of those at most maxDelay;
\* a reconnect scheduled with counter 1 or 0 (the first error, or no error) has
\* the restart delay.
C39_DelayBoundedAndOrdered ==
    \A i \in DOMAIN reconnectTimer :
        LET t == reconnectTimer[i]
        IN  IF t.attempt >= 2
            THEN /\ Less(t.delay, Ms(MAX_RECONNECT_DELAY_MS + JitterBoundMs))
                 /\ lastSession.op = "error" =>
                        \A m \in 2..t.attempt :
                            /\ LessEq(backoffDelay(m), Ms(MAX_RECONNECT_DELAY_MS))
                            /\ LessEq(Plus(backoffDelay(m), Ms(lastSession.jitter)),
                                      t.delay)
            ELSE Same(t.delay, Ms(RESTART_DELAY_MS))

\* the tenth error in a row: the capped delay with the largest jitter drawn
C39_Witness ==
    /\ lastSession.op = "error"
    /\ Scheduled
    /\ reconnectTimer[1].attempt = DefaultMaxReconnectAttempts
    /\ Same(reconnectTimer[1].delay, Ms(MAX_RECONNECT_DELAY_MS + JitterBoundMs - 1))

====
